---- MODULE Spec2Model ----
(***************************************************************************)
(* A model of DriveGCS_Sync_handler.py: the ancestor-chain walker, the     *)
(* shared-root relativizer, and the /webhook handler that mirrors one      *)
(* Drive file into a GCS bucket.                                           *)
(*                                                                         *)
(* Strings are sequences of tokens.  The token "/" is the path separator;  *)
(* every other token stands for a non-empty piece of text without a "/".   *)
(* '/'.join and str.split('/') are modelled by what they do on these       *)
(* sequences, so a name that itself holds a "/" does not survive the       *)
(* round trip.                                                             *)
(***************************************************************************)
EXTENDS Integers, Sequences, FiniteSets, TLC

\* ----------------------------------------------------------------- bounds
NumNodes == 3
MaxFailAt == 2

\* ------------------------------------------------------ program constants
max_depth == 20
SEP == "/"
GCS_BASE_PATH == <<"cogninest.ai", SEP, "1 ANG Data Aggregator">>

\* ------------------------------------------------------------ Python values
\* A value that may be None.
None == [none |-> TRUE, str |-> <<>>]
Some(s) == [none |-> FALSE, str |-> s]
\* Python's "not v" for a value that is None or a string.
Falsy(v) == v.none \/ v.str = <<>>

\* ------------------------------------------------------------ str helpers
RECURSIVE Join(_)
Join(parts) ==
    IF parts = <<>> THEN <<>>
    ELSE IF Len(parts) = 1 THEN parts[1]
    ELSE parts[1] \o <<SEP>> \o Join(Tail(parts))

RECURSIVE SplitAcc(_, _, _, _)
SplitAcc(s, i, cur, acc) ==
    IF i > Len(s) THEN Append(acc, cur)
    ELSE IF s[i] = SEP THEN SplitAcc(s, i + 1, <<>>, Append(acc, cur))
    ELSE SplitAcc(s, i + 1, Append(cur, s[i]), acc)

Split(s) == SplitAcc(s, 1, <<>>, <<>>)

Reverse(xs) == [i \in 1..Len(xs) |-> xs[Len(xs) + 1 - i]]

EndsWith(s, suffix) ==
    /\ Len(suffix) <= Len(s)
    /\ SubSeq(s, Len(s) - Len(suffix) + 1, Len(s)) = suffix

StartsWith(s, prefix) ==
    /\ Len(prefix) <= Len(s)
    /\ SubSeq(s, 1, Len(prefix)) = prefix

\* list.index: the first position holding x (0 when it raises ValueError).
Index(xs, x) ==
    IF \E i \in 1..Len(xs) : xs[i] = x
    THEN CHOOSE i \in 1..Len(xs) : xs[i] = x /\ \A j \in 1..(i - 1) : xs[j] # x
    ELSE 0

\* ------------------------------------------------------------------ state
VARIABLES
    parent,     \* Drive: node -> its first parent (0: no parents)
    name,       \* Drive: node -> its name
    mime,       \* Drive: node -> its mimeType (None: the field is missing)
    shared,     \* the node SHARED_FOLDER_ID names
    call,       \* the last call of a path function, with its inputs and result
    bucket,     \* GCS: object name -> content
    prior,      \* GCS: which objects the bucket held before any request
    req,        \* per webhook request: its position, locals and response
    uploads     \* the requests whose file upload succeeded, in order

drive == <<parent, name, mime, shared>>
vars == <<parent, name, mime, shared, call, bucket, prior, req, uploads>>

\* The folder chain, and a second file beside the chain's last node.
Nodes == 1..NumNodes
Twin == NumNodes + 1
AllNodes == Nodes \cup {Twin}
Names == { <<"s">>, <<"a">>, <<"b">>, <<"a", SEP, "s">> }
FetchKinds == {"http", "exc"}
FetchOutcomes == {"ok", "http", "exc"}

\* The outcome of the k-th metadata fetch of a walk (0: the starting file's):
\* the walk ends at its first failed fetch, so one failing position is general.
FetchOutcome(k, failAt, failKind) == IF k = failAt THEN failKind ELSE "ok"

\* ------------------------------------------------------- get_drive_path
Finish(path_parts, fetches) ==
    [result |-> Some(Join(Reverse(path_parts))), fetches |-> fetches,
     parts |-> path_parts]

RECURSIVE WalkLoop(_, _, _, _, _, _)
\* The loop with the ceiling tested off by one (depth <= max_depth).
WalkLoopOffByOne(current_id, depth, path_parts, fetches, failAt, failKind) ==
    IF current_id # 0 /\ depth <= max_depth
    THEN LET out == FetchOutcome(fetches + 1, failAt, failKind) IN
         IF out = "exc"
         THEN [result |-> None, fetches |-> fetches + 1, parts |-> path_parts]
         ELSE IF out = "http"
         THEN Finish(path_parts, fetches + 1)
         ELSE LET parts2 == Append(path_parts, name[current_id]) IN
              IF parent[current_id] = 0
              THEN Finish(parts2, fetches + 1)
              ELSE WalkLoop(parent[current_id], depth + 1, parts2,
                            fetches + 1, failAt, failKind)
    ELSE Finish(path_parts, fetches)

WalkLoop(current_id, depth, path_parts, fetches, failAt, failKind) ==
    IF current_id # 0 /\ depth < max_depth
    THEN LET out == FetchOutcome(fetches + 1, failAt, failKind) IN
         IF out = "exc"
         THEN [result |-> None, fetches |-> fetches + 1, parts |-> path_parts]
         ELSE IF out = "http"
         THEN Finish(path_parts, fetches + 1)
         ELSE LET parts2 == Append(path_parts, name[current_id]) IN
              IF parent[current_id] = 0
              THEN Finish(parts2, fetches + 1)
              ELSE WalkLoop(parent[current_id], depth + 1, parts2,
                            fetches + 1, failAt, failKind)
    ELSE Finish(path_parts, fetches)

get_drive_path(file_id, failAt, failKind) ==
    IF FetchOutcome(0, failAt, failKind) # "ok"
    THEN [result |-> None, fetches |-> 0, parts |-> <<>>]
    ELSE IF parent[file_id] = 0
    THEN [result |-> Some(name[file_id]), fetches |-> 0,
          parts |-> <<name[file_id]>>]
    ELSE WalkLoop(parent[file_id], 0, <<name[file_id]>>, 0, failAt, failKind)

\* ------------------------------------- get_relative_path_from_shared_folder
NoPath == [file_name |-> None, folder_path |-> None]

get_relative_path_from_shared_folder(file_id, failAt, failKind, sharedOut) ==
    LET full_path == get_drive_path(file_id, failAt, failKind).result IN
    IF Falsy(full_path) THEN NoPath
    ELSE IF sharedOut # "ok" THEN NoPath
    ELSE LET shared_folder_name == name[shared]
             path_parts == Split(full_path.str)
             shared_folder_index == Index(path_parts, shared_folder_name)
         IN  IF shared_folder_index # 0
             THEN LET relative_parts ==
                          SubSeq(path_parts, shared_folder_index + 1,
                                 Len(path_parts))
                  IN  IF relative_parts = <<>>
                      THEN [file_name |-> None, folder_path |-> Some(<<>>)]
                      ELSE [file_name |->
                                Some(relative_parts[Len(relative_parts)]),
                            folder_path |->
                                Some(IF Len(relative_parts) > 1
                                     THEN Join(SubSeq(relative_parts, 1,
                                                 Len(relative_parts) - 1))
                                     ELSE <<>>)]
             ELSE [file_name |-> Some(path_parts[Len(path_parts)]),
                   folder_path |->
                       Some(IF Len(path_parts) > 1
                            THEN Join(SubSeq(path_parts, 1,
                                             Len(path_parts) - 1))
                            ELSE <<>>)]

\* ------------------------------------------------------------ MIME types
NATIVE_PREFIX == <<"application/vnd.google-apps">>
MIME_FOLDER == <<"application/vnd.google-apps", ".folder">>
MIME_DOCUMENT == <<"application/vnd.google-apps", ".document">>
MIME_SPREADSHEET == <<"application/vnd.google-apps", ".spreadsheet">>
MIME_PRESENTATION == <<"application/vnd.google-apps", ".presentation">>
MIME_DRAWING == <<"application/vnd.google-apps", ".drawing">>
MIME_PDF == <<"application/pdf">>
FileMimes ==
    { Some(MIME_DOCUMENT), Some(MIME_SPREADSHEET), Some(MIME_PRESENTATION),
      Some(MIME_DRAWING), Some(MIME_PDF), None }

\* ----------------------------------------------------- download_drive_file
\* The table with the spreadsheet entry missing (the PDF default applies).
export_formats_no_sheet(mime_type) ==
    IF mime_type = MIME_DOCUMENT
    THEN [mime |-> "application/pdf", ext |-> <<".pdf">>]
    ELSE IF mime_type = MIME_PRESENTATION
    THEN [mime |-> "presentationml.presentation", ext |-> <<".pptx">>]
    ELSE [mime |-> "application/pdf", ext |-> <<".pdf">>]

\* export_formats.get(mime_type, ('application/pdf', '.pdf'))
export_formats(mime_type) ==
    IF mime_type = MIME_DOCUMENT
    THEN [mime |-> "application/pdf", ext |-> <<".pdf">>]
    ELSE IF mime_type = MIME_SPREADSHEET
    THEN [mime |-> "spreadsheetml.sheet", ext |-> <<".xlsx">>]
    ELSE IF mime_type = MIME_PRESENTATION
    THEN [mime |-> "presentationml.presentation", ext |-> <<".pptx">>]
    ELSE [mime |-> "application/pdf", ext |-> <<".pdf">>]

\* The bytes Drive serves for a file: its media, or its export to a format.
DriveBytes(file_id, format) == <<"bytes", ToString(file_id), format>>

\* The (file_content, extension) pair download_drive_file returns; an
\* HttpError gives (None, None).  Another exception is the caller's to handle.
download_drive_file(file_id, mime_type, out) ==
    IF out = "http"
    THEN [file_content |-> None, extension |-> None]
    ELSE IF ~mime_type.none /\ StartsWith(mime_type.str, NATIVE_PREFIX)
    THEN [file_content |->
              Some(DriveBytes(file_id, export_formats(mime_type.str).mime)),
          extension |-> Some(export_formats(mime_type.str).ext)]
    ELSE [file_content |-> Some(DriveBytes(file_id, "media")),
          extension |-> Some(<<>>)]

\* --------------------------------------------------------------- the bucket
\* The bucket is what it held before the requests (prior: nothing, a stale
\* object at every folder-marker name, at every other name, or at both)
\* overlaid with the objects written since (bucket).
Priors == {"none", "markers", "files", "all"}
EmptyBucket == [k \in {} |-> <<>>]
IsMarkerName(blob_name) == EndsWith(blob_name, <<SEP>>)
PriorHas(blob_name) ==
    IF IsMarkerName(blob_name) THEN prior \in {"markers", "all"}
    ELSE prior \in {"files", "all"}

\* blob.exists()
Exists(b, blob_name) == blob_name \in DOMAIN b \/ PriorHas(blob_name)

\* The content of an object (None: there is no such object).
ObjectAt(b, blob_name) ==
    IF blob_name \in DOMAIN b THEN Some(b[blob_name])
    ELSE IF PriorHas(blob_name) THEN Some(<<"stale">>)
    ELSE None

\* An upload that sends nothing of the content (the stream left at its end).
upload_to_gcs_at_end(b, blob_name, content) == (blob_name :> <<>>) @@ b

\* An upload that keeps an object already stored under the name.
upload_to_gcs_if_absent(b, blob_name, content) ==
    IF blob_name \in DOMAIN b THEN b ELSE (blob_name :> content) @@ b

\* blob.upload_from_file after seek(0): the object becomes the whole content,
\* whatever was stored under the name.
upload_to_gcs(b, blob_name, content) == (blob_name :> content) @@ b

\* folder_blob.upload_from_string(text)
upload_from_string(b, blob_name, text) == (blob_name :> text) @@ b

\* ------------------------------------------------------------ handle_webhook
Reqs == {1, 2}

validate_file_path(file_path) == TRUE

NoResponse == [code |-> 0, msg |-> "none"]
Response(code, msg) == [code |-> code, msg |-> msg]

NoReq ==
    [pc |-> "idle", file_id |-> 0, mime_type |-> None,
     file_name |-> <<>>, relative_folder_path |-> <<>>,
     gcs_folder_path |-> <<>>, file_content |-> <<>>, gcs_filename |-> <<>>,
     gcs_object_name |-> <<>>, response |-> NoResponse,
     log |-> <<>>,           \* history: the collaborator calls made, in order
     snap |-> EmptyBucket]   \* history: the bucket when this one ended

Entry(step, ok) == [step |-> step, ok |-> ok]

\* The request ends with a response.
Respond(r, code, msg, entries, after) ==
    req' = [req EXCEPT ![r].pc = "done",
                       ![r].response = Response(code, msg),
                       ![r].log = @ \o entries,
                       ![r].snap = after]

\* Lines 238-245: the body is read; a request without a file id ends with 400.
Receive(r) ==
    /\ req[r].pc = "idle"
    /\ \E f \in AllNodes \cup {0} :
        IF f = 0
        THEN Respond(r, 400, "File ID not provided", <<>>, bucket)
        ELSE req' = [req EXCEPT ![r].pc = "auth", ![r].file_id = f]
    /\ UNCHANGED <<drive, call, bucket, prior, uploads>>

\* Lines 250-254: both services are authenticated, then both results checked.
Authenticate(r) ==
    /\ req[r].pc = "auth"
    /\ \E d \in BOOLEAN, g \in BOOLEAN :
        IF ~d \/ ~g
        THEN Respond(r, 500, "Authentication failed", <<Entry("auth", FALSE)>>, bucket)
        ELSE req' = [req EXCEPT ![r].pc = "meta",
                                ![r].log = Append(@, Entry("auth", TRUE))]
    /\ UNCHANGED <<drive, call, bucket, prior, uploads>>

\* Lines 257-268: the file's metadata; folders are skipped.
GetMetadata(r) ==
    /\ req[r].pc = "meta"
    /\ \E out \in FetchOutcomes :
        IF out = "http"
        THEN Respond(r, 404, "Could not retrieve file metadata",
                     <<Entry("metadata", FALSE)>>, bucket)
        ELSE IF out = "exc"
        THEN Respond(r, 500, "exception", <<Entry("metadata", FALSE)>>, bucket)
        ELSE IF mime[req[r].file_id] = Some(MIME_FOLDER)
        THEN Respond(r, 200, "Skipped folder", <<Entry("metadata", TRUE)>>, bucket)
        ELSE req' = [req EXCEPT ![r].pc = "resolve",
                                ![r].mime_type = mime[req[r].file_id],
                                ![r].log = Append(@, Entry("metadata", TRUE))]
    /\ UNCHANGED <<drive, call, bucket, prior, uploads>>

\* What the path resolution's fetches add to the request's log.
PathLog(walk, failAt, sharedOut) ==
    <<Entry("path_fetch", ~(failAt # -1 /\ failAt <= walk.fetches))>>
    \o (IF Falsy(walk.result) THEN <<>>
        ELSE <<Entry("shared_fetch", sharedOut = "ok")>>)

\* The destination folder built without the test for an empty relative path.
BuildFolderPathAlways(relative_folder_path) ==
    GCS_BASE_PATH \o <<SEP>> \o relative_folder_path

\* Lines 291-295: the destination folder of the object.
BuildFolderPath(relative_folder_path) ==
    IF relative_folder_path # <<>>
    THEN GCS_BASE_PATH \o <<SEP>> \o relative_folder_path
    ELSE GCS_BASE_PATH

\* Lines 271-299: the relative path, the filter, the destination folder.
ResolvePath(r) ==
    /\ req[r].pc = "resolve"
    /\ \E at \in -1..MaxFailAt, kind \in FetchKinds, so \in FetchOutcomes :
        /\ (at = -1 => kind = "http")
        /\ LET f == req[r].file_id
               rel == get_relative_path_from_shared_folder(f, at, kind, so)
               entries == PathLog(get_drive_path(f, at, kind), at, so)
           IN  IF Falsy(rel.file_name)
               THEN Respond(r, 500, "Could not determine file path", entries, bucket)
               ELSE IF ~validate_file_path(rel.folder_path.str)
               THEN Respond(r, 200, "Skipped file", entries, bucket)
               ELSE req' = [req EXCEPT
                       ![r].pc = IF rel.folder_path.str # <<>>
                                 THEN "marker_check" ELSE "download",
                       ![r].file_name = rel.file_name.str,
                       ![r].relative_folder_path = rel.folder_path.str,
                       ![r].gcs_folder_path =
                           BuildFolderPath(rel.folder_path.str),
                       ![r].log = @ \o entries]
    /\ UNCHANGED <<drive, call, bucket, prior, uploads>>

\* The name of the folder-marker object of a destination folder.
MarkerName(gcs_path) == gcs_path \o <<SEP>>

\* create_gcs_folder_structure, up to folder_blob.exists(); its result and
\* its exceptions are dropped by the caller (line 299).
MarkerCheck(r) ==
    /\ req[r].pc = "marker_check"
    /\ LET gcs_path == req[r].gcs_folder_path IN
       IF gcs_path = <<>> \/ gcs_path = <<SEP>>
       THEN req' = [req EXCEPT ![r].pc = "download"]
       ELSE \E ok \in BOOLEAN :
            req' = [req EXCEPT
                ![r].pc = IF ok /\ ~Exists(bucket, MarkerName(gcs_path))
                          THEN "marker_create" ELSE "download",
                ![r].log = Append(@, Entry("marker_exists", ok))]
    /\ UNCHANGED <<drive, call, bucket, prior, uploads>>

\* create_gcs_folder_structure: folder_blob.upload_from_string("").
MarkerCreate(r) ==
    /\ req[r].pc = "marker_create"
    /\ \E ok \in BOOLEAN :
        /\ bucket' = IF ok
                     THEN upload_from_string(bucket,
                              MarkerName(req[r].gcs_folder_path), <<>>)
                     ELSE bucket
        /\ req' = [req EXCEPT ![r].pc = "download",
                              ![r].log = Append(@, Entry("marker_create", ok))]
    /\ UNCHANGED <<drive, call, prior, uploads>>

\* Lines 312-316: the object's final filename.
FinalFilename(file_name, extension) ==
    IF extension # <<>> /\ ~EndsWith(file_name, extension)
    THEN file_name \o extension
    ELSE file_name

\* Line 319: the object's name.
ObjectName(gcs_folder_path, gcs_filename) ==
    gcs_folder_path \o <<SEP>> \o gcs_filename

\* Lines 303-319: the download, the final filename, the object name.
Download(r) ==
    /\ req[r].pc = "download"
    /\ \E out \in FetchOutcomes :
        IF out = "exc"
        THEN Respond(r, 500, "exception", <<Entry("download", FALSE)>>, bucket)
        ELSE LET got == download_drive_file(req[r].file_id,
                                            req[r].mime_type, out)
                 gcs_filename ==
                     FinalFilename(req[r].file_name, got.extension.str)
             IN  IF got.file_content.none
                 THEN Respond(r, 500, "Could not download file from Drive",
                              <<Entry("download", FALSE)>>, bucket)
                 ELSE req' = [req EXCEPT
                         ![r].pc = "upload",
                         ![r].file_content = got.file_content.str,
                         ![r].gcs_filename = gcs_filename,
                         ![r].gcs_object_name =
                             ObjectName(req[r].gcs_folder_path, gcs_filename),
                         ![r].log = Append(@, Entry("download", TRUE))]
    /\ UNCHANGED <<drive, call, bucket, prior, uploads>>

\* Lines 323-343: the upload and the response.
Upload(r) ==
    /\ req[r].pc = "upload"
    /\ \E ok \in BOOLEAN :
        IF ok
        THEN /\ bucket' = upload_to_gcs(bucket, req[r].gcs_object_name,
                                        req[r].file_content)
             /\ uploads' = Append(uploads, r)
             /\ Respond(r, 200, "Successfully replicated",
                        <<Entry("upload", TRUE)>>,
                        upload_to_gcs(bucket, req[r].gcs_object_name,
                                      req[r].file_content))
        ELSE /\ UNCHANGED <<bucket, uploads>>
             /\ Respond(r, 500, "Failed to replicate",
                        <<Entry("upload", FALSE)>>, bucket)
    /\ UNCHANGED <<drive, call, prior>>

Step(r) ==
    \/ Receive(r)
    \/ Authenticate(r)
    \/ GetMetadata(r)
    \/ ResolvePath(r)
    \/ MarkerCheck(r)
    \/ MarkerCreate(r)
    \/ Download(r)
    \/ Upload(r)

Next == \E r \in Reqs : Step(r)

\* ------------------------------------------------------------ initial states
NoCall ==
    [op |-> "none", file_id |-> 0, failAt |-> -1, failKind |-> "http",
     sharedOut |-> "ok", walk |-> [result |-> None, fetches |-> 0, parts |-> <<>>],
     rel |-> NoPath]

\* A folder chain 1 <- 2 <- ... <- NumNodes; node 1 is the top and has no
\* parent, or a parent link back into the chain (a cycle).
Drives ==
    { p \in [AllNodes -> 0..NumNodes] :
        /\ \A n \in Nodes : n > 1 => p[n] = n - 1
        /\ p[Twin] = p[NumNodes] }

FolderNames == { <<"s">>, <<"a">> }
FileNames == { <<"a">>, <<"a", ".pdf">>, <<"a", ".xlsx">>, <<"a", ".pptx">> }

\* An acyclic folder chain with a file at its end.
InitDrive(leafNames, leafMimes, twinNames, priors, shareds) ==
    /\ parent \in { p \in Drives : p[1] = 0 }
    /\ \E fn \in [1..(NumNodes - 1) -> FolderNames],
          ln \in leafNames, tn \in twinNames :
         name = [n \in AllNodes |->
                    IF n < NumNodes THEN fn[n]
                    ELSE IF n = NumNodes THEN ln ELSE tn]
    /\ \E lm \in leafMimes :
         mime = [n \in AllNodes |->
                    IF n < NumNodes THEN Some(MIME_FOLDER)
                    ELSE IF n = NumNodes THEN lm ELSE Some(MIME_PDF)]
    /\ shared \in shareds
    /\ call = NoCall
    /\ prior \in priors
    /\ bucket = EmptyBucket
    /\ uploads = <<>>

\* One webhook request.
Init ==
    /\ InitDrive(FileNames, FileMimes, {<<"b">>}, Priors, Nodes)
    /\ req = [r \in Reqs |-> IF r = 1 THEN NoReq ELSE [NoReq EXCEPT !.pc = "off"]]

Spec == Init /\ [][Next]_vars

\* Two webhook requests, handled concurrently; the shared root is the
\* folder of the two files, or that folder's parent.
InitConc ==
    /\ InitDrive({<<"a">>}, {Some(MIME_PDF)}, {<<"a">>, <<"b">>},
                 {"none", "all"},
                 {n \in Nodes : n < NumNodes /\ n >= NumNodes - 2})
    /\ req = [r \in Reqs |-> NoReq]

SpecConc == InitConc /\ [][Next]_vars

\* --------------------------------------------------- the path functions' runs
InitPath ==
    /\ parent \in Drives
    /\ name \in { nm \in [AllNodes -> Names] : nm[Twin] = <<"b">> }
    /\ mime = [n \in AllNodes |-> Some(MIME_FOLDER)]
    /\ shared \in Nodes
    /\ call = NoCall
    /\ bucket = EmptyBucket
    /\ prior = "none"
    /\ req = [r \in Reqs |-> [NoReq EXCEPT !.pc = "off"]]
    /\ uploads = <<>>

CallGetDrivePath ==
    /\ call.op = "none"
    /\ \E f \in Nodes, at \in -1..MaxFailAt, kind \in FetchKinds :
        /\ (at = -1 => kind = "http")
        /\ call' = [NoCall EXCEPT !.op = "get_drive_path", !.file_id = f,
                       !.failAt = at, !.failKind = kind,
                       !.walk = get_drive_path(f, at, kind)]
    /\ UNCHANGED <<drive, bucket, prior, req, uploads>>

CallGetRelativePath ==
    /\ call.op = "none"
    /\ \E f \in Nodes, at \in -1..MaxFailAt, kind \in FetchKinds,
          so \in FetchOutcomes :
        /\ (at = -1 => kind = "http")
        /\ call' = [NoCall EXCEPT !.op = "get_relative_path", !.file_id = f,
                       !.failAt = at, !.failKind = kind, !.sharedOut = so,
                       !.walk = get_drive_path(f, at, kind),
                       !.rel = get_relative_path_from_shared_folder(f, at, kind, so)]
    /\ UNCHANGED <<drive, bucket, prior, req, uploads>>

NextPath == CallGetDrivePath \/ CallGetRelativePath

SpecPath == InitPath /\ [][NextPath]_vars

\* ------------------------------------------------------- claims on the paths
\* The ids from node n upwards along first-parent links: n, parent[n], ...,
\* ending at a node without parents or after k hops.
RECURSIVE AncestorIds(_, _)
AncestorIds(n, k) ==
    IF parent[n] = 0 \/ k = 0 THEN <<n>>
    ELSE <<n>> \o AncestorIds(parent[n], k - 1)

\* The ancestor chain of n when it ends at a node without parents.
ChainIds(n) == AncestorIds(n, NumNodes)
ReachesRoot(n) == parent[ChainIds(n)[Len(ChainIds(n))]] = 0
NamesOf(ids) == [i \in 1..Len(ids) |-> name[ids[i]]]
Position(ids, n) == Index(ids, n)

NoFetchFails == call.failAt = -1
\* A fetch that the walk made failed.
SomeWalkFetchFailed == call.failAt # -1 /\ call.failAt <= call.walk.fetches

\* C3: get_drive_path makes at most 20 parent-metadata fetches after the
\* fetch of the starting file, whatever the parent links (cycles included),
\* and ends with a value, not an exception: a path of at most 21 names
\* whenever the starting file's metadata was fetched and no fetch raised.
C3_WalkBounded ==
    call.op = "get_drive_path" =>
        /\ call.walk.fetches <= 20
        /\ Len(call.walk.parts) <= 21
        /\ (call.failAt = -1 \/ (call.failKind = "http" /\ call.failAt # 0))
               => /\ ~call.walk.result.none
                  /\ Len(call.walk.parts) >= 1
                  /\ call.walk.result.str = Join(Reverse(call.walk.parts))

\* C3 witness: a walk round a cycle that stops at the ceiling.
C3_Witness ==
    /\ call.op = "get_drive_path"
    /\ parent[1] # 0
    /\ call.failAt = -1
    /\ call.walk.fetches = 20
    /\ Len(call.walk.parts) = 21
    /\ ~call.walk.result.none

\* C4 (as claimed): get_drive_path returns None whenever the fetch of the
\* starting file or of a visited ancestor fails, and the root-to-leaf names
\* when no fetch fails and the root is reached.
C4_FailureGivesNone ==
    call.op = "get_drive_path" =>
        /\ SomeWalkFetchFailed => call.walk.result.none
        /\ (NoFetchFails /\ ReachesRoot(call.file_id)) =>
               call.walk.result =
                   Some(Join(Reverse(NamesOf(ChainIds(call.file_id)))))

\* C1 (as claimed): for a file with N folders between it and the shared
\* root, whose name no other node of the file's ancestor chain carries, the
\* relativizer returns the file's own name and the N folder names top-down.
C1_RelativeToSharedRoot ==
    LET ids == ChainIds(call.file_id)
        k == Position(ids, shared)
    IN  ( /\ call.op = "get_relative_path"
          /\ NoFetchFails /\ call.sharedOut = "ok"
          /\ ReachesRoot(call.file_id)
          /\ k > 1
          /\ \A i \in 1..Len(ids) : i # k => name[ids[i]] # name[shared] )
        => /\ call.rel.file_name = Some(name[call.file_id])
           /\ call.rel.folder_path =
                  Some(Join(Reverse(NamesOf(SubSeq(ids, 2, k - 1)))))

\* C2 (as claimed): with the walker's chain of names root-to-leaf, if the
\* shared root's name is not in the chain the result is the whole chain
\* (last name, the others joined); if it is, the result is what follows its
\* first occurrence.
C2_FallbackOnChain ==
    LET chain == Reverse(call.walk.parts)
        i == Index(chain, name[shared])
        rest == SubSeq(chain, i + 1, Len(chain))
    IN  ( /\ call.op = "get_relative_path"
          /\ ~call.walk.result.none /\ call.sharedOut = "ok" )
        => IF i = 0
           THEN /\ call.rel.file_name = Some(chain[Len(chain)])
                /\ call.rel.folder_path =
                       Some(Join(SubSeq(chain, 1, Len(chain) - 1)))
           ELSE IF rest = <<>>
           THEN call.rel.file_name = None
           ELSE /\ call.rel.file_name = Some(rest[Len(rest)])
                /\ call.rel.folder_path =
                       Some(Join(SubSeq(rest, 1, Len(rest) - 1)))

\* ----------------------------------------------------- claims on the webhook
HasEntry(log, step) == \E i \in 1..Len(log) : log[i].step = step
Pos(log, step) ==
    IF HasEntry(log, step)
    THEN CHOOSE i \in 1..Len(log) :
             log[i].step = step /\ \A j \in 1..(i - 1) : log[j].step # step
    ELSE 0
OkEntry(log, step) == \E i \in 1..Len(log) : log[i].step = step /\ log[i].ok
Clean(log) == \A i \in 1..Len(log) : log[i].ok

\* The request downloaded its file: it is at the upload, or past it.
ReachedUpload(r) == req[r].pc = "upload" \/ HasEntry(req[r].log, "upload")
Replicated(r) ==
    req[r].pc = "done" /\ req[r].response = Response(200, "Successfully replicated")

\* C5: the object name of a request that reaches the upload is the base
\* prefix, the relative folder path when it is not empty, and the final
\* filename, joined by single separators; a successful upload stores the
\* object under that name.
C5_ObjectKey ==
    \A r \in Reqs : ReachedUpload(r) =>
        LET rel == req[r].relative_folder_path
            key == req[r].gcs_object_name
        IN  /\ key = Join(<<GCS_BASE_PATH>>
                          \o (IF rel # <<>> THEN <<rel>> ELSE <<>>)
                          \o <<req[r].gcs_filename>>)
            /\ rel = <<>> => key = GCS_BASE_PATH \o <<SEP>> \o req[r].gcs_filename
            /\ StartsWith(key, GCS_BASE_PATH \o <<SEP>>)
            /\ ~EndsWith(key, <<SEP>>)
            /\ \A i \in 1..(Len(key) - 1) : ~(key[i] = SEP /\ key[i + 1] = SEP)
            /\ Replicated(r) => key \in DOMAIN bucket

\* C5 witness: a file in a folder below the shared root has been replicated.
C5_Witness ==
    \E r \in Reqs :
        /\ Replicated(r)
        /\ req[r].relative_folder_path # <<>>
        /\ req[r].gcs_object_name \in DOMAIN bucket

\* C6: a native MIME type gets its mapped extension (document .pdf,
\* spreadsheet .xlsx, presentation .pptx, any other native type .pdf) unless
\* the resolved name already ends with it; any other MIME type, or none,
\* leaves the resolved name as it is.
C6_FinalFilename ==
    \A r \in Reqs : ReachedUpload(r) =>
        LET m == req[r].mime_type
            nm == req[r].file_name
            ext == IF m.str = MIME_DOCUMENT THEN <<".pdf">>
                   ELSE IF m.str = MIME_SPREADSHEET THEN <<".xlsx">>
                   ELSE IF m.str = MIME_PRESENTATION THEN <<".pptx">>
                   ELSE <<".pdf">>
        IN  /\ m # Some(MIME_FOLDER)
            /\ m = mime[req[r].file_id]
            /\ IF ~m.none /\ StartsWith(m.str, NATIVE_PREFIX)
               THEN req[r].gcs_filename =
                        (IF EndsWith(nm, ext) THEN nm ELSE nm \o ext)
               ELSE req[r].gcs_filename = nm

\* C6 witness: a spreadsheet whose name lacks .xlsx got it appended.
C6_Witness ==
    \E r \in Reqs :
        /\ ReachedUpload(r)
        /\ req[r].mime_type = Some(MIME_SPREADSHEET)
        /\ ~EndsWith(req[r].file_name, <<".xlsx">>)
        /\ req[r].gcs_filename = req[r].file_name \o <<".xlsx">>

\* C7 (as claimed): a failed collaborator step is the request's last step,
\* and the request ends there with an error response: 404 for the file's
\* metadata, 500 otherwise.
C7_FailureAborts ==
    \A r \in Reqs : \A i \in 1..Len(req[r].log) :
        ~req[r].log[i].ok =>
            /\ i = Len(req[r].log)
            /\ req[r].pc = "done"
            /\ req[r].response.code \in {404, 500}
            /\ req[r].response.code = 404 => req[r].log[i].step = "metadata"

PastMarker(r) ==
    req[r].pc \in {"download", "upload"} \/ HasEntry(req[r].log, "download")

\* C9 (as claimed): within a request the file is uploaded only after its
\* download succeeded; exactly when the relative folder path is not empty
\* the folder marker is checked for, and written (empty) if the check found
\* none, all before the download, so that the marker is there when the file
\* is uploaded; a marker that exists is not written again; and a request
\* whose download fails writes no file object: at most its marker.
C9_StepOrder ==
    \A r \in Reqs :
        LET log == req[r].log
            rel == req[r].relative_folder_path
            marker == MarkerName(req[r].gcs_folder_path)
        IN  /\ HasEntry(log, "upload") =>
                   /\ OkEntry(log, "download")
                   /\ Pos(log, "download") < Pos(log, "upload")
                   /\ rel # <<>> => Exists(bucket, marker)
            /\ PastMarker(r) =>
                   /\ (rel # <<>>) <=> HasEntry(log, "marker_exists")
                   /\ HasEntry(log, "marker_create") <=>
                          (OkEntry(log, "marker_exists") /\ ~PriorHas(marker))
                   /\ HasEntry(log, "marker_create") =>
                          Pos(log, "marker_create") = Pos(log, "marker_exists") + 1
                   /\ HasEntry(log, "download") =>
                          /\ Pos(log, "marker_exists") < Pos(log, "download")
                          /\ Pos(log, "marker_create") < Pos(log, "download")
                   /\ OkEntry(log, "marker_create") =>
                          /\ marker \in DOMAIN bucket
                          /\ bucket[marker] = <<>>
                   /\ (rel # <<>> /\ PriorHas(marker)) => marker \notin DOMAIN bucket
                   /\ rel = <<>> => \A k \in DOMAIN bucket : ~IsMarkerName(k)
            /\ (HasEntry(log, "download") /\ ~OkEntry(log, "download")) =>
                   /\ DOMAIN bucket \subseteq {marker}
                   /\ rel = <<>> => bucket = EmptyBucket

\* The response a finished request gives, read off its own calls alone.
OwnResponses(r) ==
    LET log == req[r].log IN
    IF log = <<>> THEN {Response(400, "File ID not provided")}
    ELSE LET last == log[Len(log)] IN
         IF last.step = "auth" THEN {Response(500, "Authentication failed")}
         ELSE IF last.step = "metadata"
         THEN IF last.ok THEN {Response(200, "Skipped folder")}
              ELSE {Response(404, "Could not retrieve file metadata"),
                    Response(500, "exception")}
         ELSE IF last.step \in {"path_fetch", "shared_fetch"}
         THEN {Response(500, "Could not determine file path")}
         ELSE IF last.step = "download"
         THEN {Response(500, "Could not download file from Drive"),
               Response(500, "exception")}
         ELSE IF last.step = "upload"
         THEN IF last.ok THEN {Response(200, "Successfully replicated")}
              ELSE {Response(500, "Failed to replicate")}
         ELSE {}

AllDone == \A r \in Reqs : req[r].pc = "done"
Uploaded == {r \in Reqs : OkEntry(req[r].log, "upload")}
MarkerMakers == {r \in Reqs : OkEntry(req[r].log, "marker_create")}

\* C10: however the steps of two requests interleave, each response follows
\* from the request's own calls, and the objects written are the markers
\* created (empty) and the files uploaded: for distinct object names each
\* holds its request's content; for one shared name the object is the whole
\* content of the later upload.
C10_NoInterference ==
    /\ \A r \in Reqs : req[r].pc = "done" => req[r].response \in OwnResponses(r)
    /\ AllDone =>
         /\ DOMAIN bucket =
                {req[r].gcs_object_name : r \in Uploaded}
                \cup {MarkerName(req[r].gcs_folder_path) : r \in MarkerMakers}
         /\ \A r \in MarkerMakers :
                bucket[MarkerName(req[r].gcs_folder_path)] = <<>>
         /\ \A r \in Uploaded :
                (\A q \in Uploaded \ {r} :
                     req[q].gcs_object_name # req[r].gcs_object_name)
                => bucket[req[r].gcs_object_name] = req[r].file_content
         /\ \A r \in Uploaded, q \in Uploaded :
                (r # q /\ req[q].gcs_object_name = req[r].gcs_object_name)
                => /\ bucket[req[r].gcs_object_name] =
                          req[uploads[Len(uploads)]].file_content
                   /\ bucket[req[r].gcs_object_name] \in
                          {req[r].file_content, req[q].file_content}
         /\ \A r \in Reqs :
                ( /\ PastMarker(r) /\ OkEntry(req[r].log, "marker_exists")
                  /\ (HasEntry(req[r].log, "marker_create")
                          => OkEntry(req[r].log, "marker_create")) )
                => Exists(bucket, MarkerName(req[r].gcs_folder_path))

\* C10 witness: two requests with distinct object names both found the one
\* folder marker missing, both wrote it, and both uploaded.
C10_Witness ==
    /\ AllDone
    /\ Uploaded = Reqs
    /\ MarkerMakers = Reqs
    /\ req[1].gcs_folder_path = req[2].gcs_folder_path
    /\ req[1].gcs_object_name # req[2].gcs_object_name
    /\ bucket[req[1].gcs_object_name] = req[1].file_content
    /\ bucket[req[2].gcs_object_name] = req[2].file_content

====
